---- MODULE Spec2Model ----
(***************************************************************************)
(* The classification pipeline of the Aerie tweet collector:               *)
(*   collector/database.py    the Record Store (table `tweets`)            *)
(*   collector/classifier.py  the Response Parser and the Orchestrator     *)
(*   collector/server.py      the ingestion and approve-all endpoints      *)
(***************************************************************************)
EXTENDS Integers, Sequences, FiniteSets, TLC

VARIABLES
    tweets,     \* the table `tweets`: a function from the stored ids to their rows
    now,        \* the reading of datetime.utcnow(); the specifications below keep it still
    ret,        \* the last request the server handled: its input and what the store returned
    run,        \* run[o]: the locals of run_classifier for orchestrator process o
    content,    \* the model reply handed to the Response Parser (parser specification)
    outcome     \* what the Response Parser made of `content`

vars == <<tweets, now, ret, run, content, outcome>>

----------------------------------------------------------------------------
(* Bounds of the model *)

MaxIds == 3         \* the orchestrator specifications ingest the records 1..MaxIds
MaxBatch == 2       \* --batch-size ranges up to MaxBatch
MaxRecs == 2        \* in the store specification a store_tweets call carries at most MaxRecs records
MaxReplyLen == 4    \* a model reply has at most MaxReplyLen lexemes (parser specification)

Ids == 1..MaxIds
Texts == {"a", "b"}

(* SQL NULL in an integer or timestamp column; a key absent from a dict *)
NULL == -1
NULLTEXT == "NULL"
MISSING == "MISSING"
NOKEY == 0

Min(a, b) == IF a < b THEN a ELSE b

----------------------------------------------------------------------------
(* Reasons.  A reason is a message followed by the first `upto` characters  *)
(* of a text (f"...: {content[:100]}"); a plain message has no text.        *)

Reason(msg) == [msg |-> msg, text |-> <<>>, upto |-> 0]
NullReason == Reason("NULL")

----------------------------------------------------------------------------
(* Model replies.  A reply is a text of lexemes separated by single blanks; *)
(* `content` is the sequence of its lexemes (response.content[0].text       *)
(* stripped).                                                               *)

LBRACE == "{"
RBRACE == "}"
COMMA == ","
APPROVED_TRUE == "\"approved\": true"
APPROVED_FALSE == "\"approved\": false"
REASON_STR == "\"reason\": \"positive content\""
STR == "\"positive content\""
WORD == "this-looks-like-a-perfectly-harmless-and-very-friendly-tweet"

Members == {APPROVED_TRUE, APPROVED_FALSE, REASON_STR}
Tokens == {LBRACE, RBRACE, COMMA, "true", "false", "Approved", STR, WORD} \cup Members

(* len(token) *)
TokenLen(tok) ==
    CASE tok \in {LBRACE, RBRACE, COMMA} -> 1
      [] tok = "true" -> 4
      [] tok = "false" -> 5
      [] tok = "Approved" -> 8
      [] tok = APPROVED_TRUE -> 16
      [] tok = APPROVED_FALSE -> 17
      [] tok = STR -> 18
      [] tok = REASON_STR -> 28
      [] tok = WORD -> 60
      [] tok = "I" -> 1
      [] tok = "be" -> 2
      [] tok \in {"this", "it's", "fine"} -> 4
      [] tok = "think" -> 5
      [] tok = "should" -> 6
      [] tok = "because" -> 7
      [] tok = "approved" -> 8
      [] OTHER -> 17        \* "Connection error."

RECURSIVE TextLen(_)
TextLen(text) ==
    IF text = <<>> THEN 0
    ELSE TokenLen(Head(text)) + (IF Len(text) > 1 THEN 1 ELSE 0) + TextLen(Tail(text))

(* f"{msg}{text[:n]}" *)
Truncated(msg, text, n) == [msg |-> msg, text |-> text, upto |-> Min(n, TextLen(text))]

(* str.lower() of one lexeme *)
Lower(tok) == IF tok = "Approved" THEN "approved" ELSE tok

(* word in token, for the three words classify_tweet looks for *)
Contains(tok, word) ==
    CASE word = "approved" -> tok \in {"approved", APPROVED_TRUE, APPROVED_FALSE}
      [] word = "true" -> tok \in {"true", APPROVED_TRUE}
      [] word = "false" -> tok \in {"false", APPROVED_FALSE}
      [] OTHER -> FALSE

(* A heuristic that is content with the word "approved" alone *)
InLower_Approved(text, word) == \E i \in 1..Len(text) : Contains(Lower(text[i]), "approved")

(* word in content.lower() *)
InLower(text, word) == \E i \in 1..Len(text) : Contains(Lower(text[i]), word)

(* json.loads(text).  Over these lexemes a JSON document is a scalar (true, *)
(* false, a string) or a flat object { member , member ... }; in an object  *)
(* a repeated key keeps its last value.                                     *)
MemberKey(tok) == IF tok = REASON_STR THEN "reason" ELSE "approved"
MemberValue(tok) ==
    CASE tok = APPROVED_TRUE -> "true"
      [] tok = APPROVED_FALSE -> "false"
      [] OTHER -> "positive content"

IsObjectText(text) ==
    /\ Len(text) >= 2
    /\ text[1] = LBRACE
    /\ text[Len(text)] = RBRACE
    /\ \/ Len(text) = 2
       \/ /\ Len(text) % 2 = 1
          /\ \A i \in 2..(Len(text) - 1) :
                IF i % 2 = 0 THEN text[i] \in Members ELSE text[i] = COMMA

ObjectOf(text) ==
    LET keys == {MemberKey(text[i]) : i \in {j \in 2..(Len(text) - 1) : text[j] \in Members}}
        last(k) == CHOOSE i \in 2..(Len(text) - 1) :
                      /\ text[i] \in Members /\ MemberKey(text[i]) = k
                      /\ \A j \in (i + 1)..(Len(text) - 1) :
                            ~(text[j] \in Members /\ MemberKey(text[j]) = k)
    IN  [k \in keys |-> MemberValue(text[last(k)])]

json_loads(text) ==
    IF IsObjectText(text)
    THEN [ok |-> TRUE, kind |-> "dict", dict |-> ObjectOf(text)]
    ELSE IF Len(text) = 1 /\ text[1] \in {"true", "false"}
    THEN [ok |-> TRUE, kind |-> "bool", dict |-> <<>>]
    ELSE IF Len(text) = 1 /\ text[1] = STR
    THEN [ok |-> TRUE, kind |-> "str", dict |-> <<>>]
    ELSE [ok |-> FALSE, kind |-> "JSONDecodeError", dict |-> <<>>]

(* re.search(r"\{[^}]+\}", text).group(), or <<>> for no match: the match   *)
(* starts at the first "{" that has a "}" to its right and ends at the      *)
(* first "}" after it (the blank after "{" is a character other than "}"). *)
re_search(text) ==
    LET opens == {i \in 1..Len(text) : text[i] = LBRACE /\ \E j \in (i + 1)..Len(text) : text[j] = RBRACE}
    IN  IF opens = {} THEN <<>>
        ELSE LET i == CHOOSE x \in opens : \A y \in opens : x <= y
                 j == CHOOSE x \in (i + 1)..Len(text) :
                         text[x] = RBRACE /\ \A y \in (i + 1)..(x - 1) : text[y] # RBRACE
             IN  SubSeq(text, i, j)

(* dict.get(key, default) *)
Get(dict, key, default) == IF key \in DOMAIN dict THEN dict[key] ELSE default

Returned(approved, reason) == [raised |-> "none", approved |-> approved, reason |-> reason]
Raised(exception) == [raised |-> exception, approved |-> FALSE, reason |-> NullReason]

(* classifier.py lines 146-149: result.get(...) on what json.loads gave *)
FromResult(result) ==
    IF result.kind # "dict"
    THEN Raised("AttributeError")
    ELSE Returned(Get(result.dict, "approved", "true") = "true",
                  Reason(Get(result.dict, "reason", "No reason provided")))

(* A response of the model call: an API error or a reply text *)
ApiError(message) == [error |-> TRUE, text |-> message]
Reply(text) == [error |-> FALSE, text |-> text]

(* A classify_tweet without its except clause *)
ExceptApiError_Raise(message) == Raised("APIError")

(* Lines 151-153: except anthropic.APIError as e *)
ExceptApiError(message) ==
    Returned(TRUE, Truncated("API error, defaulting to approved: ", message, 100))

(* classify_tweet, from the response of client.messages.create on *)
classify_tweet(response) ==
    IF response.error
    THEN ExceptApiError(response.text)
    ELSE LET text == response.text
             direct == json_loads(text)
             json_match == re_search(text)
         IN  IF direct.ok THEN FromResult(direct)
             ELSE IF json_match # <<>>
             THEN LET found == json_loads(json_match) IN
                  IF found.ok THEN FromResult(found) ELSE Raised("JSONDecodeError")
             ELSE IF InLower(text, "approved") /\ InLower(text, "true")
             THEN Returned(TRUE, Reason("LLM indicated approval"))
             ELSE IF InLower(text, "approved") /\ InLower(text, "false")
             THEN Returned(FALSE, Reason("LLM indicated rejection"))
             ELSE Returned(TRUE, Truncated("Could not parse response, defaulting to approved: ",
                                           text, 100))

----------------------------------------------------------------------------
(* The Record Store: collector/database.py *)

PendingRow(text, captured_at) ==
    [text |-> text, captured_at |-> captured_at,
     classification_status |-> "pending", classification_result |-> NULL,
     classification_reason |-> NullReason, classified_at |-> NULL]

(* A store whose INSERT replaces a row with a taken id (INSERT OR REPLACE) *)
IntegrityError_Replace(t, rec) == rec.text = NULLTEXT

(* One INSERT of store_tweets' loop: the statement fails with IntegrityError *)
(* on a taken id (PRIMARY KEY) and on a null text (NOT NULL).                *)
IntegrityError(t, rec) == rec.id \in DOMAIN t \/ rec.text = NULLTEXT

(* A store whose INSERT overwrites the text of a row that exists (an upsert) *)
OnConflict_Upsert(t, rec) ==
    IF rec.id \in DOMAIN t /\ rec.text # NULLTEXT THEN [t EXCEPT ![rec.id].text = rec.text] ELSE t

(* except sqlite3.IntegrityError: the failed statement has changed nothing *)
OnConflict(t, rec) == t

(* tweet["id"] or tweet["text"] raises KeyError when the key is absent *)
KeyError(rec) == rec.id = NOKEY \/ rec.text = MISSING

Insert(t, rec, clock) ==
    (rec.id :> PendingRow(rec.text,
                          IF rec.captured_at = NULL THEN clock ELSE rec.captured_at)) @@ t

RECURSIVE StoreLoop(_, _, _, _, _)
StoreLoop(t, recs, inserted, duplicates, clock) ==
    IF recs = <<>>
    THEN [raised |-> FALSE, tweets |-> t, inserted |-> inserted, duplicates |-> duplicates]
    ELSE LET rec == Head(recs) IN
         IF KeyError(rec)
         THEN [raised |-> TRUE, tweets |-> t, inserted |-> inserted, duplicates |-> duplicates]
         ELSE IF IntegrityError(t, rec)
         THEN StoreLoop(OnConflict(t, rec), Tail(recs), inserted, duplicates + 1, clock)
         ELSE StoreLoop(Insert(t, rec, clock), Tail(recs), inserted + 1, duplicates, clock)

Ret(op, args, ok, inserted, duplicates, count) ==
    [op |-> op, args |-> args, ok |-> ok, inserted |-> inserted, duplicates |-> duplicates,
     count |-> count]

(* store_tweets(tweets): the whole call is one transaction, rolled back when *)
(* an exception escapes the loop.                                            *)
store_tweets(t, recs, clock) ==
    IF recs = <<>>
    THEN [tweets |-> t, ret |-> Ret("store_tweets", recs, TRUE, 0, 0, 0)]
    ELSE LET r == StoreLoop(t, recs, 0, 0, clock) IN
         IF r.raised
         THEN [tweets |-> t, ret |-> Ret("store_tweets", recs, FALSE, 0, 0, 0)]
         ELSE [tweets |-> r.tweets,
               ret |-> Ret("store_tweets", recs, TRUE, r.inserted, r.duplicates, 0)]

PendingIds(t) == {i \in DOMAIN t : t[i].classification_status = "pending"}

(* A get_stats that counts every completed row as approved *)
get_stats_Completed(t) ==
    [total |-> Cardinality(DOMAIN t),
     pending |-> Cardinality(PendingIds(t)),
     approved |-> Cardinality({i \in DOMAIN t : t[i].classification_status = "completed"}),
     filtered |-> Cardinality({i \in DOMAIN t : t[i].classification_result = 0})]

(* get_stats(): four independent counts *)
get_stats(t) ==
    [total |-> Cardinality(DOMAIN t),
     pending |-> Cardinality(PendingIds(t)),
     approved |-> Cardinality({i \in DOMAIN t : t[i].classification_result = 1}),
     filtered |-> Cardinality({i \in DOMAIN t : t[i].classification_result = 0})]

(* The sequences over S without repetition, of length n *)
RECURSIVE Arrangements(_, _)
Arrangements(S, n) ==
    IF n = 0 THEN {<<>>}
    ELSE UNION {{<<x>> \o s : s \in Arrangements(S \ {x}, n - 1)} : x \in S}

(* get_pending_tweets(limit): the answers SELECT ... WHERE status = 'pending' *)
(* ORDER BY captured_at DESC LIMIT ? may give.  Rows with equal captured_at   *)
(* come in an order SQL leaves open; a negative LIMIT is no limit.            *)
get_pending_tweets(t, limit) ==
    LET P == PendingIds(t)
        n == IF limit < 0 THEN Cardinality(P) ELSE Min(limit, Cardinality(P))
        Sorted(s) == \A i, j \in 1..Cardinality(P) :
                        i < j => t[s[i]].captured_at >= t[s[j]].captured_at
    IN  {SubSeq(s, 1, n) : s \in {p \in Arrangements(P, Cardinality(P)) : Sorted(p)}}

(* An UPDATE without its WHERE clause *)
update_classification_AllRows(t, tweet_id, approved, reason, clock) ==
    [i \in DOMAIN t |->
        [t[i] EXCEPT !.classification_status = "completed",
                     !.classification_result = IF approved THEN 1 ELSE 0,
                     !.classification_reason = reason,
                     !.classified_at = clock]]

(* An UPDATE that binds the result the wrong way round *)
update_classification_Inverted(t, tweet_id, approved, reason, clock) ==
    [i \in DOMAIN t |->
        IF i = tweet_id
        THEN [t[i] EXCEPT !.classification_status = "completed",
                          !.classification_result = IF approved THEN 0 ELSE 1,
                          !.classification_reason = reason,
                          !.classified_at = clock]
        ELSE t[i]]

(* An UPDATE that leaves classified_at out of its SET list *)
update_classification_NoTimestamp(t, tweet_id, approved, reason, clock) ==
    [i \in DOMAIN t |->
        IF i = tweet_id
        THEN [t[i] EXCEPT !.classification_status = "completed",
                          !.classification_result = IF approved THEN 1 ELSE 0,
                          !.classification_reason = reason]
        ELSE t[i]]

(* update_classification(tweet_id, approved, reason): UPDATE ... WHERE id = ? *)
update_classification(t, tweet_id, approved, reason, clock) ==
    [i \in DOMAIN t |->
        IF i = tweet_id
        THEN [t[i] EXCEPT !.classification_status = "completed",
                          !.classification_result = IF approved THEN 1 ELSE 0,
                          !.classification_reason = reason,
                          !.classified_at = clock]
        ELSE t[i]]

(* An approve-all whose UPDATE has no WHERE clause *)
approve_all_pending_AllRows(t, clock) ==
    [tweets |->
        [i \in DOMAIN t |->
            [t[i] EXCEPT !.classification_status = "completed",
                         !.classification_result = 1,
                         !.classification_reason = Reason("auto-approved"),
                         !.classified_at = clock]],
     rowcount |-> Cardinality(DOMAIN t)]

(* approve_all_pending(): UPDATE ... WHERE classification_status = 'pending' *)
approve_all_pending(t, clock) ==
    [tweets |->
        [i \in DOMAIN t |->
            IF t[i].classification_status = "pending"
            THEN [t[i] EXCEPT !.classification_status = "completed",
                              !.classification_result = 1,
                              !.classification_reason = Reason("auto-approved"),
                              !.classified_at = clock]
            ELSE t[i]],
     rowcount |-> Cardinality(PendingIds(t))]



----------------------------------------------------------------------------
(* The server's endpoints: collector/server.py, and the store's writers *)

(* POST /tweets: receive_tweets -> store_tweets(tweets) *)
StoreTweets(recs) ==
    LET r == store_tweets(tweets, recs, now) IN
    /\ tweets' = r.tweets
    /\ ret' = r.ret
    /\ UNCHANGED <<now, run, content, outcome>>

(* POST /tweets/approve-all: approve_all -> approve_all_pending() *)
ApproveAll ==
    LET r == approve_all_pending(tweets, now) IN
    /\ tweets' = r.tweets
    /\ ret' = Ret("approve_all", <<>>, TRUE, 0, 0, r.rowcount)
    /\ UNCHANGED <<now, run, content, outcome>>

(* A caller of the store commits one classification *)
UpdateClassification(tweet_id, approved, reason) ==
    /\ tweets' = update_classification(tweets, tweet_id, approved, reason, now)
    /\ ret' = Ret("update_classification",
                  <<[id |-> tweet_id, approved |-> approved, reason |-> reason]>>, TRUE, 0, 0, 0)
    /\ UNCHANGED <<now, run, content, outcome>>

(* A caller of the store reads the pending tweets: [dict(row) for row in rows] *)
Rows(t, batch) ==
    [k \in 1..Len(batch) |->
        [id |-> batch[k], text |-> t[batch[k]].text, captured_at |-> t[batch[k]].captured_at]]

GetPendingTweets(limit) ==
    /\ \E batch \in get_pending_tweets(tweets, limit) :
          ret' = Ret("get_pending_tweets", Rows(tweets, batch), TRUE, 0, 0, limit)
    /\ UNCHANGED <<tweets, now, run, content, outcome>>

----------------------------------------------------------------------------
(* The Orchestrator: run_classifier of collector/classifier.py.  run[o] are *)
(* the locals of process o, one invocation of classifier.py; run[o].pc is   *)
(* where it stands: idle (not started), fetching (the head of the while     *)
(* loop), classifying (inside classify_batch), committing (the save loop),  *)
(* done (the function returned) or failed (an exception left it).           *)
(* run[o].calls counts the calls the process has made, run[o].batches lists *)
(* len(tweets) of its fetches, and run[o].log lists its model calls: the    *)
(* tweet sent and the response received.                                    *)

Runs == {"r1", "r2"}

NoCalls == [get_stats |-> 0, get_pending_tweets |-> 0, create |-> 0, update_classification |-> 0]

IdleRun ==
    [pc |-> "idle", exit |-> "", api_key |-> TRUE, batch_size |-> 1, max_tweets |-> NULL,
     dry_run |-> FALSE, pending |-> 0, limit |-> 0, processed |-> 0, approved_count |-> 0,
     filtered_count |-> 0, fetch_count |-> 0, tweets |-> <<>>, results |-> <<>>, saved |-> 0,
     calls |-> NoCalls, batches |-> <<>>,
     stats |-> [total |-> 0, pending |-> 0, approved |-> 0, filtered |-> 0], log |-> <<>>]

Called(r, f) == [r EXCEPT !.calls[f] = @ + 1]

(* classifier.py line 225; `if max_tweets` is false for None and for 0 *)
Limit(max_tweets, pending) ==
    IF max_tweets # NULL /\ max_tweets # 0 THEN Min(max_tweets, pending) ELSE pending

(* A run_classifier that reads the stats before it looks for the key *)
Started_StatsFirst(r0, stats) ==
    IF ~r0.api_key
    THEN [Called(r0, "get_stats") EXCEPT !.pc = "done", !.exit = "no api key"]
    ELSE IF stats.pending = 0
    THEN [Called(r0, "get_stats") EXCEPT !.pc = "done", !.exit = "no pending"]
    ELSE [Called(r0, "get_stats") EXCEPT
             !.pc = "fetching", !.pending = stats.pending, !.stats = stats,
             !.limit = Limit(r0.max_tweets, stats.pending)]

(* classifier.py lines 203-222: what run_classifier does before it computes *)
(* the limit: the key check, then get_stats and the test for pending work   *)
Started(r0, stats) ==
    IF ~r0.api_key
    THEN [r0 EXCEPT !.pc = "done", !.exit = "no api key"]
    ELSE IF stats.pending = 0
    THEN [Called(r0, "get_stats") EXCEPT !.pc = "done", !.exit = "no pending"]
    ELSE [Called(r0, "get_stats") EXCEPT
             !.pc = "fetching", !.pending = stats.pending, !.stats = stats,
             !.limit = Limit(r0.max_tweets, stats.pending)]

(* run_classifier up to the while loop (lines 190-236) *)
RunClassifier(o, api_key, batch_size, max_tweets, dry_run) ==
    /\ run[o].pc = "idle"
    /\ run' = [run EXCEPT ![o] =
          Started([IdleRun EXCEPT !.api_key = api_key, !.batch_size = batch_size,
                                  !.max_tweets = max_tweets, !.dry_run = dry_run],
                  get_stats(tweets))]
    /\ UNCHANGED <<tweets, now, ret, content, outcome>>

(* The end of run_classifier (lines 271-283) *)
Finished(r) ==
    [(IF r.dry_run THEN r ELSE Called(r, "get_stats")) EXCEPT !.pc = "done", !.exit = "complete"]

(* min(batch_size, remaining) of line 241 *)
FetchCount(r) == Min(r.batch_size, r.limit - r.processed)

(* The head of the while loop (lines 238-245): the test, the fetch, the break *)
Fetch(o) ==
    LET r == run[o] IN
    /\ r.pc = "fetching"
    /\ IF r.processed < r.limit
       THEN \E batch \in get_pending_tweets(tweets, FetchCount(r)) :
               run' = [run EXCEPT ![o] =
                  LET f == [Called(r, "get_pending_tweets") EXCEPT
                               !.fetch_count = FetchCount(r),
                               !.batches = Append(@, Len(batch))]
                  IN  IF batch = <<>> THEN Finished(f)
                      ELSE [f EXCEPT !.pc = "classifying", !.tweets = batch,
                                     !.results = <<>>, !.saved = 0]]
       ELSE run' = [run EXCEPT ![o] = Finished(r)]
    /\ UNCHANGED <<tweets, now, ret, content, outcome>>

(* A loop that saves each result as soon as it has it *)
AfterClassify_SaveAtOnce(results, batch) == "committing"

(* classify_batch returns (line 187) after the last tweet of the batch *)
AfterClassify(results, batch) ==
    IF Len(results) = Len(batch) THEN "committing" ELSE "classifying"

(* One turn of classify_batch's loop (lines 169-181): the model call for the *)
(* next tweet of the batch answers `response`; an exception of               *)
(* classify_tweet leaves classify_batch and run_classifier.                  *)
ClassifyTweet(o, response) ==
    LET r == run[o]
        tweet_id == r.tweets[Len(r.results) + 1]
        out == classify_tweet(response)
        c == [Called(r, "create") EXCEPT
                 !.log = Append(@, [tweet_id |-> tweet_id, response |-> response])]
    IN  /\ r.pc = "classifying"
        /\ run' = [run EXCEPT ![o] =
              IF out.raised # "none"
              THEN [c EXCEPT !.pc = "failed", !.exit = out.raised]
              ELSE LET results == Append(r.results,
                                         [tweet_id |-> tweet_id, approved |-> out.approved,
                                          reason |-> out.reason])
                   IN  [c EXCEPT !.results = results,
                                 !.pc = AfterClassify(results, r.tweets)]]
        /\ UNCHANGED <<tweets, now, ret, content, outcome>>

(* A save loop that ignores --dry-run *)
Saves_Always(r) == TRUE

(* Lines 256-257: the save loop writes unless this is a dry run *)
Saves(r) == ~r.dry_run

(* One turn of the save loop (lines 255-262), and after its last turn the   *)
(* end of the while body (line 264).                                        *)
Commit(o) ==
    LET r == run[o]
        res == r.results[r.saved + 1]
        c == IF Saves(r) THEN Called(r, "update_classification") ELSE r
        counted == [c EXCEPT !.saved = @ + 1,
                             !.approved_count = IF res.approved THEN @ + 1 ELSE @,
                             !.filtered_count = IF res.approved THEN @ ELSE @ + 1]
    IN  /\ r.pc = "committing"
        /\ tweets' = IF Saves(r)
                     THEN update_classification(tweets, res.tweet_id, res.approved,
                                                res.reason, now)
                     ELSE tweets
        /\ run' = [run EXCEPT ![o] =
              IF counted.saved = Len(r.results)
              THEN [counted EXCEPT !.processed = @ + Len(r.tweets), !.pc = "fetching"]
              ELSE counted]
        /\ UNCHANGED <<now, ret, content, outcome>>

(* The Response Parser on its own: classify_tweet on the reply in `content` *)
ParseReply ==
    /\ outcome.raised = "not parsed"
    /\ outcome' = classify_tweet(content)
    /\ UNCHANGED <<tweets, now, ret, run, content>>

----------------------------------------------------------------------------
(* Inputs *)

ApprovedReply == <<LBRACE, APPROVED_TRUE, COMMA, REASON_STR, RBRACE>>
FilteredReply == <<LBRACE, APPROVED_FALSE, RBRACE>>
BrokenReply == <<LBRACE, WORD, RBRACE>>
ConnectionError == <<"Connection error.">>
PlainReply == <<"I", "think", "this", "should", "be", "approved", "because", "it's", "fine">>

(* What the model call answers in the orchestrator specifications *)
Responses == {Reply(ApprovedReply), Reply(FilteredReply), Reply(BrokenReply),
              ApiError(ConnectionError)}

(* Every reply of at most MaxReplyLen lexemes *)
Replies == UNION {[1..n -> Tokens] : n \in 0..MaxReplyLen}

BatchSizes == -1..MaxBatch
MaxTweets == {NULL} \cup 0..MaxIds

(* A well-formed record, captured when the server stores it *)
NewTweet(id, text) == [id |-> id, text |-> text, captured_at |-> NULL]

(* The store specification's calls: up to MaxRecs well-formed records about *)
(* two tweets, each with either of two texts                                *)
StoreIds == {1, 2}
StoreRecords == {NewTweet(id, text) : id \in StoreIds, text \in Texts}
StoreInputs == UNION {[1..n -> StoreRecords] : n \in 0..MaxRecs}

(* Calls that may carry a partial record: one without the key "id", one     *)
(* without the key "text", one whose text is null                           *)
PartialRecords == {NewTweet(NOKEY, "a"), NewTweet(1, MISSING), NewTweet(2, NULLTEXT)}
PartialInputs == UNION {[1..n -> StoreRecords \cup PartialRecords] : n \in 0..MaxRecs}

(* Records that carry the time the extension captured them, and the limits  *)
(* get_pending_tweets is called with (fetch_count is negative when          *)
(* --batch-size is)                                                         *)
CapturedAts == {1, 2}
CapturedRecords == {[id |-> id, text |-> "a", captured_at |-> c] : id \in Ids, c \in CapturedAts}
Limits == -1..MaxIds

NoRet == Ret("", <<>>, TRUE, 0, 0, 0)
NotParsed == [raised |-> "not parsed", approved |-> FALSE, reason |-> NullReason]

Init ==
    /\ tweets = <<>>
    /\ now = 0
    /\ ret = NoRet
    /\ run = [o \in Runs |-> IdleRun]
    /\ content = Reply(<<>>)
    /\ outcome = NotParsed

----------------------------------------------------------------------------
(* Specifications *)

(* The extension posts the next tweet it has captured *)
Ingest ==
    LET id == Cardinality(DOMAIN tweets) + 1 IN
    id \in Ids /\ StoreTweets(<<NewTweet(id, "a")>>)

(* The server's requests in the orchestrator specifications *)
Server ==
    \/ Ingest
    \/ ApproveAll

(* Spec: one orchestrator process with a positive batch size and no --max,  *)
(* beside the server, whose requests come at any time                       *)
Next ==
    \/ Server
    \/ \E dry_run \in BOOLEAN, batch_size \in 1..MaxBatch :
          RunClassifier("r1", TRUE, batch_size, NULL, dry_run)
    \/ Fetch("r1")
    \/ \E response \in Responses : ClassifyTweet("r1", response)
    \/ Commit("r1")

Spec == Init /\ [][Next]_vars

(* SpecLive: Spec with a process that keeps running: a model call returns  *)
(* or fails, and the statements of run_classifier follow one another        *)
RunStep ==
    \/ Fetch("r1")
    \/ \E response \in Responses : ClassifyTweet("r1", response)
    \/ Commit("r1")

SpecLive == Spec /\ WF_vars(RunStep)

(* SpecRun: one orchestrator process with any arguments, on a store that no *)
(* one else writes once it has started                                      *)
NextRun ==
    \/ run["r1"].pc = "idle" /\ Server
    \/ \E api_key, dry_run \in BOOLEAN, batch_size \in BatchSizes, max_tweets \in MaxTweets :
          RunClassifier("r1", api_key, batch_size, max_tweets, dry_run)
    \/ Fetch("r1")
    \/ \E response \in Responses : ClassifyTweet("r1", response)
    \/ Commit("r1")

SpecRun == Init /\ [][NextRun]_vars

(* SpecTwo: two orchestrator processes on a store ingested before they start *)
NextTwo ==
    \/ (\A o \in Runs : run[o].pc = "idle") /\ Ingest
    \/ \E o \in Runs, batch_size \in 1..MaxBatch : RunClassifier(o, TRUE, batch_size, NULL, FALSE)
    \/ \E o \in Runs : Fetch(o)
    \/ \E o \in Runs, response \in {Reply(ApprovedReply), Reply(FilteredReply)} :
          ClassifyTweet(o, response)
    \/ \E o \in Runs : Commit(o)

SpecTwo == Init /\ [][NextTwo]_vars

(* SpecStore: the Record Store under its callers *)
NextStore ==
    \/ \E recs \in StoreInputs : StoreTweets(recs)
    \/ ApproveAll
    \/ \E tweet_id \in StoreIds, approved \in BOOLEAN :
          UpdateClassification(tweet_id, approved, Reason("No reason provided"))

SpecStore == Init /\ [][NextStore]_vars

(* SpecPartial: the server on requests that may carry partial records *)
NextPartial ==
    \/ \E recs \in PartialInputs : StoreTweets(recs)
    \/ ApproveAll

SpecPartial == Init /\ [][NextPartial]_vars

(* SpecFetch: get_pending_tweets on the stores its callers can build *)
NextFetch ==
    \/ \E rec \in CapturedRecords : StoreTweets(<<rec>>)
    \/ ApproveAll
    \/ \E tweet_id \in Ids, approved \in BOOLEAN :
          UpdateClassification(tweet_id, approved, Reason("No reason provided"))
    \/ \E limit \in Limits : GetPendingTweets(limit)

SpecFetch == Init /\ [][NextFetch]_vars

(* SpecParser: the Response Parser on every reply and on an API error *)
InitParser ==
    /\ tweets = <<>>
    /\ now = 0
    /\ ret = NoRet
    /\ run = [o \in Runs |-> IdleRun]
    /\ content \in {Reply(text) : text \in Replies \cup {PlainReply}} \cup {ApiError(ConnectionError)}
    /\ outcome = NotParsed

SpecParser == InitParser /\ [][ParseReply]_vars

----------------------------------------------------------------------------
(* Properties *)

Completed(row) == row.classification_status = "completed"
Pending(row) == row.classification_status = "pending"

(* The two composite states of a record (spec section 3) *)
ValidRow(row) ==
    \/ /\ Pending(row)
       /\ row.classification_result = NULL
       /\ row.classified_at = NULL
    \/ /\ Completed(row)
       /\ row.classification_result \in {0, 1}
       /\ row.classified_at # NULL

(* C1: in every reachable state, whatever the server's requests and         *)
(* wherever the orchestrator stands (between or inside batches), every      *)
(* record is either pending with no result and no classified_at, or         *)
(* completed with result approved or filtered and classified_at set.        *)
C1_CompositeState == \A i \in DOMAIN tweets : ValidRow(tweets[i])

(* The run stands inside the save loop of a batch of two, one result saved, *)
(* beside a record that approve-all completed and one still pending         *)
C1_Witness ==
    LET r == run["r1"] IN
    /\ r.pc = "committing" /\ Len(r.results) = 2 /\ r.saved = 1
    /\ Completed(tweets[r.results[1].tweet_id])
    /\ tweets[r.results[1].tweet_id].classification_reason # Reason("auto-approved")
    /\ Pending(tweets[r.results[2].tweet_id])
    /\ \E i \in DOMAIN tweets : tweets[i].classification_reason = Reason("auto-approved")

(* C2: once a record is completed, no later step changes its result, its    *)
(* reason or its classified_at (its classification is written once).        *)
C2_MutatedOnce ==
    [][\A i \in DOMAIN tweets :
          Completed(tweets[i]) =>
             /\ i \in DOMAIN tweets'
             /\ tweets'[i].classification_result = tweets[i].classification_result
             /\ tweets'[i].classification_reason = tweets[i].classification_reason
             /\ tweets'[i].classified_at = tweets[i].classified_at]_vars

(* C3: under any interleaving of store_tweets, approve-all and commits (the *)
(* store specification's UpdateClassification is the only write an          *)
(* orchestrator makes, here for any id at any time), the stored ids only    *)
(* grow and a completed record never becomes pending again.                 *)
C3_OneDirectional ==
    [][/\ DOMAIN tweets \subseteq DOMAIN tweets'
       /\ \A i \in DOMAIN tweets : Completed(tweets[i]) => Completed(tweets'[i])]_vars

(* A store_tweets call has just met a completed record and counted it a duplicate *)
C3_Witness ==
    /\ ret.op = "store_tweets" /\ ret.duplicates >= 1
    /\ \E k \in 1..Len(ret.args) :
          /\ ret.args[k].id \in DOMAIN tweets
          /\ Completed(tweets[ret.args[k].id])
          /\ tweets[ret.args[k].id].classification_reason = Reason("No reason provided")

(* C4: a store_tweets call of well-formed records leaves every stored row   *)
(* as it was; an id that was not stored gets one pending row with the text  *)
(* of the first record of the call that carries it; inserted is the number  *)
(* of ids the call added, every other record counts as a duplicate, and     *)
(* inserted + duplicates is the number of records submitted.                *)
C4_DedupIdempotence ==
    [][ret'.op = "store_tweets" =>
          LET recs == ret'.args
              ids == {recs[k].id : k \in 1..Len(recs)}
              first(i) == CHOOSE k \in 1..Len(recs) :
                             recs[k].id = i /\ \A j \in 1..(k - 1) : recs[j].id # i
          IN  /\ ret'.ok
              /\ DOMAIN tweets' = DOMAIN tweets \cup ids
              /\ \A i \in DOMAIN tweets : tweets'[i] = tweets[i]
              /\ \A i \in ids \ DOMAIN tweets :
                    /\ tweets'[i].text = recs[first(i)].text
                    /\ Pending(tweets'[i])
                    /\ ValidRow(tweets'[i])
              /\ ret'.inserted = Cardinality(ids \ DOMAIN tweets)
              /\ ret'.duplicates = Len(recs) - Cardinality(ids \ DOMAIN tweets)
              /\ ret'.inserted + ret'.duplicates = Len(recs)]_vars

(* One call has carried the same new id twice with two texts: the first     *)
(* text is stored, inserted = 1 and duplicates = 1                          *)
C4_Witness ==
    /\ ret.op = "store_tweets" /\ Len(ret.args) = 2
    /\ ret.args[1].id = ret.args[2].id
    /\ ret.args[1].text # ret.args[2].text
    /\ ret.inserted = 1 /\ ret.duplicates = 1
    /\ tweets[ret.args[1].id].text = ret.args[1].text

(* C5: no step of a dry run, from its start on, changes the table, whatever *)
(* --batch-size and --max are: every row and so the counts of get_stats     *)
(* stay as they were, the pending records are those the run counted when it *)
(* started, and the run never calls update_classification.                  *)
C5_DryRunNoOp ==
    [][run'["r1"].dry_run =>
          /\ tweets' = tweets
          /\ get_stats(tweets') = get_stats(tweets)
          /\ run'["r1"].pc \notin {"idle", "done"} =>
                 get_stats(tweets').pending = run'["r1"].pending
          /\ run'["r1"].calls.update_classification = 0]_vars

(* A dry run has completed after more than one batch *)
C5_Witness ==
    LET r == run["r1"] IN
    /\ r.dry_run /\ r.pc = "done" /\ r.exit = "complete"
    /\ Len(r.batches) >= 2 /\ r.processed >= 2
    /\ Cardinality(PendingIds(tweets)) >= 2

(* The batches of a run: full ones, then at most one holding the remainder *)
RECURSIVE Sum(_)
Sum(seq) == IF seq = <<>> THEN 0 ELSE Head(seq) + Sum(Tail(seq))

QuotaBatches(r, total) ==
    /\ Sum(r.batches) = total
    /\ \A k \in 1..Len(r.batches) :
          r.batches[k] = Min(r.batch_size, total - Sum(SubSeq(r.batches, 1, k - 1)))

(* C6: a run that is not a dry run, with --max M >= 1 and --batch-size      *)
(* B >= 1, on a store with P pending records and no other writer, ends      *)
(* with processed = min(M, P), fetched in full batches of B and one batch   *)
(* of the remainder; all along processed <= limit and each fetch asks for   *)
(* min(B, limit - processed) records.                                       *)
C6_BatchQuota ==
    LET r == run["r1"] IN
    (r.pc # "idle" /\ r.api_key /\ ~r.dry_run /\ r.max_tweets >= 1 /\ r.batch_size >= 1) =>
        /\ r.limit = Min(r.max_tweets, r.pending)
        /\ r.processed <= r.limit
        /\ r.pc \in {"classifying", "committing"} => r.fetch_count = FetchCount(r)
        /\ r.pc \in {"done", "failed"} =>
              /\ r.processed = Min(r.max_tweets, r.pending)
              /\ QuotaBatches(r, Min(r.max_tweets, r.pending))

(* The same for the runs in which no reply makes classify_tweet raise *)
C6_QuotaOfCompletedRuns ==
    run["r1"].pc # "failed" => C6_BatchQuota

(* C7: a run with --max 0 calls neither the model nor update_classification *)
(* and processes nothing.                                                   *)
C7_MaxZeroProcessesNothing ==
    LET r == run["r1"] IN
    r.max_tweets = 0 =>
        /\ r.calls.create = 0
        /\ r.calls.update_classification = 0
        /\ r.processed = 0

(* C8: a run with --batch-size <= 0 fetches nothing, calls neither the      *)
(* model nor update_classification, and does not end as a completed run.    *)
C8_BatchSizeRejected ==
    LET r == run["r1"] IN
    (r.pc # "idle" /\ r.batch_size <= 0) =>
        /\ r.calls.get_pending_tweets = 0
        /\ r.calls.create = 0
        /\ r.calls.update_classification = 0
        /\ ~(r.pc = "done" /\ r.exit = "complete")

(* C9: a run started without ANTHROPIC_API_KEY returns at once: it has      *)
(* called none of get_stats, get_pending_tweets, the model and              *)
(* update_classification, and the table is as it was.                       *)
C9_NoCredentialNoStoreAccess ==
    [][~run'["r1"].api_key =>
          /\ tweets' = tweets
          /\ run'["r1"].calls = NoCalls
          /\ run'["r1"].pc = "done"
          /\ run'["r1"].processed = 0]_vars

(* A run without a key has returned although records are pending *)
C9_Witness ==
    /\ ~run["r1"].api_key /\ run["r1"].pc = "done"
    /\ Cardinality(PendingIds(tweets)) >= 2

(* Valid structured output: the whole reply is a JSON object *)
Structured(text) == json_loads(text).ok /\ json_loads(text).kind = "dict"

(* A reply that says "approved" and "false": the second and third steps of  *)
(* the fallback chain (spec section 4.3) may read it as a verdict           *)
SaysFiltered(text) == InLower(text, "approved") /\ InLower(text, "false")

(* C10: for a reply that is not valid structured output classify_tweet      *)
(* raises nothing; it returns approved = true (asked here only of replies   *)
(* that do not say "approved" and "false"); and where it falls through to   *)
(* its last branch the reason carries the first characters of the reply.    *)
C10_ParserFallbackSafety ==
    (outcome.raised # "not parsed" /\ ~content.error /\ ~Structured(content.text)) =>
        /\ outcome.raised = "none"
        /\ ~SaysFiltered(content.text) => outcome.approved
        /\ outcome.reason.msg = "Could not parse response, defaulting to approved: " =>
              /\ outcome.reason.text = content.text
              /\ outcome.reason.upto = Min(100, TextLen(content.text))

(* C11 as the spec states it: the plain-text reply "I think this should be  *)
(* approved because it's fine" is parsed to approved = true with the reason *)
(* "LLM indicated approval".                                                *)
C11_PlainTextApproval ==
    (content = Reply(PlainReply) /\ outcome.raised # "not parsed") =>
        /\ outcome.raised = "none"
        /\ outcome.approved
        /\ outcome.reason = Reason("LLM indicated approval")

(* C11: the plain-text reply "I think this should be approved because it's  *)
(* fine" says "approved" but neither "true" nor "false", so no heuristic    *)
(* applies: it is parsed to approved = true with the reason "Could not      *)
(* parse response, defaulting to approved: " followed by the whole reply    *)
(* (49 characters, fewer than 100).                                         *)
C11_PlainTextDefault ==
    (content = Reply(PlainReply) /\ outcome.raised # "not parsed") =>
        /\ outcome.raised = "none"
        /\ outcome.approved
        /\ outcome.reason =
              [msg |-> "Could not parse response, defaulting to approved: ",
               text |-> PlainReply, upto |-> 49]

(* The plain-text reply has been parsed *)
C11_Witness ==
    /\ content = Reply(PlainReply)
    /\ outcome.raised = "none"
    /\ InLower(content.text, "approved")
    /\ ~InLower(content.text, "true") /\ ~InLower(content.text, "false")

(* The number of results the run has saved: the batches it has finished and *)
(* the turns of the save loop it has made in the current one                *)
Committed(r) == IF r.pc = "committing" THEN r.processed + r.saved ELSE r.processed

(* C12: in a run that is not a dry run, on a store no one else writes, each *)
(* record whose result the run has saved is completed with the result and   *)
(* the reason classify_tweet gave for the reply to that record; whenever    *)
(* the run stands between batches or has ended, get_stats gives pending     *)
(* lower by `processed`, approved and filtered higher by the run's          *)
(* counters, and the same total, than when the run started.                 *)
C12_EndToEndCommit ==
    LET r == run["r1"] IN
    (r.pc \notin {"idle"} /\ r.api_key /\ ~r.dry_run /\ r.stats.pending > 0) =>
        /\ Committed(r) <= Len(r.log)
        /\ \A k \in 1..Committed(r) :
              LET row == tweets[r.log[k].tweet_id]
                  out == classify_tweet(r.log[k].response)
              IN  /\ out.raised = "none"
                  /\ Completed(row)
                  /\ row.classification_result = (IF out.approved THEN 1 ELSE 0)
                  /\ row.classification_reason = out.reason
        /\ r.pc \in {"fetching", "done", "failed"} =>
              /\ get_stats(tweets).total = r.stats.total
              /\ get_stats(tweets).pending = r.stats.pending - r.processed
              /\ get_stats(tweets).approved = r.stats.approved + r.approved_count
              /\ get_stats(tweets).filtered = r.stats.filtered + r.filtered_count

(* A run has completed after two batches, one record approved with the      *)
(* reason "positive content" and one filtered, beside one that approve-all  *)
(* had completed before the run                                             *)
C12_Witness ==
    LET r == run["r1"] IN
    /\ r.pc = "done" /\ r.exit = "complete" /\ ~r.dry_run
    /\ Len(r.batches) >= 2 /\ r.processed = 2
    /\ r.approved_count = 1 /\ r.filtered_count = 1
    /\ r.stats.approved = 1
    /\ get_stats(tweets) = [total |-> 3, pending |-> 0, approved |-> 2, filtered |-> 1]
    /\ \E i \in DOMAIN tweets : tweets[i].classification_reason = Reason("positive content")

(* The reason classify_tweet gives when the model call fails *)
ApiErrorReason(message) ==
    [msg |-> "API error, defaulting to approved: ", text |-> message,
     upto |-> Min(100, TextLen(message))]

(* C13: a model call that fails with an API error does not end the run.     *)
(* The step that makes the call appends (tweet, approved = true, "API       *)
(* error, defaulting to approved: ...") to the results and goes on with the *)
(* next tweet of the batch, or with the save loop after the last one; the   *)
(* save loop, unless this is a dry run, completes the record as approved    *)
(* with that reason like any other, and after its last turn the run is at   *)
(* the head of the loop again with the batch counted.                       *)
C13_ApiErrorNonFatal ==
    [][LET r == run["r1"]
           q == run'["r1"]
       IN  /\ (Len(q.log) = Len(r.log) + 1 /\ q.log[Len(q.log)].response.error) =>
                  /\ q.pc = IF Len(r.results) + 1 = Len(r.tweets)
                            THEN "committing" ELSE "classifying"
                  /\ q.results = Append(r.results,
                         [tweet_id |-> r.tweets[Len(r.results) + 1], approved |-> TRUE,
                          reason |-> ApiErrorReason(q.log[Len(q.log)].response.text)])
                  /\ q.tweets = r.tweets /\ q.limit = r.limit /\ q.processed = r.processed
           /\ (r.pc = "committing" /\ q.saved = r.saved + 1
                  /\ r.results[r.saved + 1].reason.msg = "API error, defaulting to approved: ") =>
                  LET res == r.results[r.saved + 1] IN
                  /\ q.approved_count = r.approved_count + 1
                  /\ ~r.dry_run =>
                        /\ Completed(tweets'[res.tweet_id])
                        /\ tweets'[res.tweet_id].classification_result = 1
                        /\ tweets'[res.tweet_id].classification_reason = res.reason
                  /\ IF q.saved = Len(r.results)
                     THEN q.pc = "fetching" /\ q.processed = r.processed + Len(r.tweets)
                     ELSE q.pc = "committing"]_vars

(* A run has completed after batches of 2 and 1; its first model call       *)
(* failed, and the record is completed as approved with the diagnostic      *)
C13_Witness ==
    LET r == run["r1"] IN
    /\ r.pc = "done" /\ r.exit = "complete" /\ ~r.dry_run
    /\ r.batches = <<2, 1>> /\ Len(r.log) = 3
    /\ r.log[1].response.error /\ ~r.log[2].response.error
    /\ tweets[r.log[1].tweet_id].classification_result = 1
    /\ tweets[r.log[1].tweet_id].classification_reason = ApiErrorReason(ConnectionError)

(* A record without id or text, or with a null one *)
Partial(rec) == rec.id \in {NOKEY, NULL} \/ rec.text \in {MISSING, NULLTEXT}

(* C14: a store_tweets call that carries a partial record fails (the caller *)
(* gets an error, no counts) and leaves the table as it was.                *)
C14_NoPartialRecord ==
    [][(ret'.op = "store_tweets" /\ \E k \in 1..Len(ret'.args) : Partial(ret'.args[k])) =>
          /\ ~ret'.ok
          /\ tweets' = tweets
          /\ ret'.inserted = 0 /\ ret'.duplicates = 0]_vars

(* C15: get_pending_tweets(limit), for any limit, returns at most `limit`   *)
(* rows (none for a limit below 0), min(limit, number pending) of them,     *)
(* each row once and each pending when the call is made, in descending      *)
(* order of captured_at, no pending row left out having been captured later *)
(* than a returned one; and the call leaves the table as it was.            *)
C15_GetPending ==
    [][ret'.op = "get_pending_tweets" =>
          LET batch == ret'.args
              limit == IF ret'.count < 0 THEN 0 ELSE ret'.count
              ids == {batch[k].id : k \in 1..Len(batch)}
          IN  /\ Len(batch) <= limit
              /\ Len(batch) = Min(limit, Cardinality(PendingIds(tweets)))
              /\ Cardinality(ids) = Len(batch)
              /\ ids \subseteq PendingIds(tweets)
              /\ \A k \in 1..Len(batch) : ~Completed(tweets[batch[k].id])
              /\ \A j, k \in 1..Len(batch) :
                    j < k => tweets[batch[j].id].captured_at >= tweets[batch[k].id].captured_at
              /\ \A i \in PendingIds(tweets) \ ids : \A k \in 1..Len(batch) :
                    tweets[i].captured_at <= tweets[batch[k].id].captured_at
              /\ tweets' = tweets]_vars

(* The same for the limits that are not negative *)
C15_GetPendingOfNatLimit ==
    [][ret'.count >= 0 => C15_GetPending!1]_vars

(* C16: after every step get_stats gives total = the number of rows,        *)
(* pending = the number of pending rows, approved = the number completed    *)
(* with result 1, filtered = the number completed with result 0, and so     *)
(* total = pending + approved + filtered; a step in which the run calls     *)
(* get_stats leaves the table as it was, and at its start the run holds     *)
(* these counts.                                                            *)
C16_GetStats ==
    [][LET st == get_stats(tweets')
           r == run["r1"]
           q == run'["r1"]
       IN  /\ st.total = Cardinality(DOMAIN tweets')
           /\ st.pending = Cardinality({i \in DOMAIN tweets' : Pending(tweets'[i])})
           /\ st.approved = Cardinality({i \in DOMAIN tweets' :
                   Completed(tweets'[i]) /\ tweets'[i].classification_result = 1})
           /\ st.filtered = Cardinality({i \in DOMAIN tweets' :
                   Completed(tweets'[i]) /\ tweets'[i].classification_result = 0})
           /\ st.total = st.pending + st.approved + st.filtered
           /\ q.calls.get_stats > r.calls.get_stats => tweets' = tweets
           /\ (r.pc = "idle" /\ q.pc = "fetching") => q.stats = get_stats(tweets)]_vars

(* A run has read the stats twice, and the table holds a pending, an        *)
(* approved and a filtered record                                           *)
C16_Witness ==
    /\ run["r1"].calls.get_stats = 2
    /\ get_stats(tweets) = [total |-> 3, pending |-> 1, approved |-> 1, filtered |-> 1]

(* C17: update_classification(id, approved, reason) returns normally; it    *)
(* adds and removes no row and changes no row but the one with that id; of  *)
(* that row it sets status = completed, result = 1 or 0 as the flag says,   *)
(* the reason and classified_at, and leaves text and captured_at alone;     *)
(* when no row has the id the table is as it was.                           *)
C17_CommitFrame ==
    [][ret'.op = "update_classification" =>
          LET call == ret'.args[1] IN
          /\ ret'.ok
          /\ DOMAIN tweets' = DOMAIN tweets
          /\ \A i \in DOMAIN tweets \ {call.id} : tweets'[i] = tweets[i]
          /\ call.id \notin DOMAIN tweets => tweets' = tweets
          /\ call.id \in DOMAIN tweets =>
                /\ tweets'[call.id].classification_status = "completed"
                /\ tweets'[call.id].classification_result = (IF call.approved THEN 1 ELSE 0)
                /\ tweets'[call.id].classification_reason = call.reason
                /\ tweets'[call.id].classified_at = now
                /\ tweets'[call.id].text = tweets[call.id].text
                /\ tweets'[call.id].captured_at = tweets[call.id].captured_at]_vars

(* A call has completed one of two rows as filtered; the other is pending *)
C17_Witness ==
    /\ ret.op = "update_classification" /\ ~ret.args[1].approved
    /\ DOMAIN tweets = {1, 2}
    /\ tweets[ret.args[1].id].classification_result = 0
    /\ \E i \in DOMAIN tweets : i # ret.args[1].id /\ Pending(tweets[i])

(* A call has named an id the table does not hold *)
C17_AbsentId ==
    /\ ret.op = "update_classification"
    /\ ret.args[1].id \notin DOMAIN tweets
    /\ tweets # <<>>

(* The step of the fallback chain (spec section 4.3) that decides a reply:  *)
(* 1 the whole reply is a JSON object, 2 its first brace-delimited          *)
(* substring is one, 3 a keyword heuristic applies, 4 the default           *)
ChainStep(text) ==
    IF Structured(text) THEN 1
    ELSE IF re_search(text) # <<>> /\ Structured(re_search(text)) THEN 2
    ELSE IF InLower(text, "approved") /\ (InLower(text, "true") \/ InLower(text, "false")) THEN 3
    ELSE 4

(* C18: classify_tweet decides a reply by the first step of the chain that  *)
(* succeeds: the whole reply as a JSON object (approved, true if missing;   *)
(* reason, "No reason provided" if missing); else the first brace-delimited *)
(* object in it, read the same way; else, also when the braces hold no      *)
(* JSON, the keywords ("approved" with "true": approved, the test made      *)
(* first; "approved" with "false": filtered); else approved by default.     *)
C18_FallbackChain ==
    (outcome.raised # "not parsed" /\ ~content.error) =>
        LET text == content.text
            object == IF ChainStep(text) = 1 THEN json_loads(text).dict
                      ELSE json_loads(re_search(text)).dict
        IN  /\ outcome.raised = "none"
            /\ ChainStep(text) \in {1, 2} =>
                  /\ outcome.approved = (Get(object, "approved", "true") = "true")
                  /\ outcome.reason = Reason(Get(object, "reason", "No reason provided"))
            /\ ChainStep(text) = 3 =>
                  outcome.approved = InLower(text, "true")
            /\ ChainStep(text) = 4 => outcome.approved

(* The same for the replies on which classify_tweet raises nothing *)
C18_ChainOfReturnedReplies ==
    outcome.raised = "none" => C18_FallbackChain

(* The last fetch of the run returned fewer rows than it asked for *)
ShortFetch(r) == r.batches # <<>> /\ r.batches[Len(r.batches)] < r.fetch_count

(* C19: when a fetch has returned fewer rows than asked for, the run, once  *)
(* that batch is over, makes no further model call and ends with            *)
(* processed < limit, in a dry run as in any other; and a fetch that        *)
(* returns no row ends the run at once.                                     *)
C19_EarlyStop ==
    [][LET r == run["r1"]
           q == run'["r1"]
       IN  /\ (r.pc = "fetching" /\ ShortFetch(r) /\ q # r) =>
                  /\ q.pc = "done"
                  /\ q.calls.create = r.calls.create
                  /\ q.processed < q.limit
           /\ q.batches = Append(r.batches, 0) => q.pc = "done"]_vars

(* A fetch that returns no row ends the run at once *)
C19_EmptyFetchEndsRun ==
    [][run'["r1"].batches = Append(run["r1"].batches, 0) =>
          run'["r1"].pc = "done" /\ run'["r1"].calls.create = run["r1"].calls.create]_vars

(* The moves of a run: idle, fetching, classifying, committing, back to     *)
(* fetching, and from fetching (or from idle, with no key or no pending     *)
(* tweet) to done; a process that an exception ends stops in classifying    *)
RunMoves ==
    {<<"idle", "fetching">>, <<"idle", "done">>, <<"fetching", "classifying">>,
     <<"fetching", "done">>, <<"classifying", "classifying">>,
     <<"classifying", "committing">>, <<"classifying", "failed">>,
     <<"committing", "committing">>, <<"committing", "fetching">>}

(* C20: a run moves idle -> fetching -> classifying -> committing ->        *)
(* fetching ... -> done.  A model call is made only while the batch has no  *)
(* result saved; a turn of the save loop comes only when every tweet of the *)
(* batch has its result, takes the results in the order of the fetch, and   *)
(* makes one update_classification call that touches that row only; a       *)
(* fetch comes only after the last save of the batch before; and a run      *)
(* that is done has approved_count + filtered_count = processed.            *)
C20_RunStateMachine ==
    [][LET r == run["r1"]
           q == run'["r1"]
       IN  /\ q # r => <<r.pc, q.pc>> \in RunMoves
           /\ q.calls.create > r.calls.create =>
                  /\ r.pc = "classifying" /\ r.saved = 0
                  /\ q.calls.create = r.calls.create + 1
                  /\ q.calls.update_classification = r.calls.update_classification
                  /\ tweets' = tweets
           /\ q.saved = r.saved + 1 =>
                  /\ r.pc = "committing"
                  /\ Len(r.results) = Len(r.tweets)
                  /\ \A k \in 1..Len(r.tweets) : r.results[k].tweet_id = r.tweets[k]
                  /\ q.calls.update_classification =
                        r.calls.update_classification + (IF r.dry_run THEN 0 ELSE 1)
                  /\ \A i \in DOMAIN tweets \ {r.tweets[r.saved + 1]} : tweets'[i] = tweets[i]
                  /\ ~r.dry_run => Completed(tweets'[r.tweets[r.saved + 1]])
           /\ q.calls.get_pending_tweets > r.calls.get_pending_tweets =>
                  /\ r.pc = "fetching"
                  /\ r.batches = <<>> \/ r.saved = Len(r.tweets)
                  /\ tweets' = tweets
           /\ q.pc = "done" => q.approved_count + q.filtered_count = q.processed]_vars

(* A run has completed after batches of 2 and 1, two approved, one filtered *)
C20_Witness ==
    LET r == run["r1"] IN
    /\ r.pc = "done" /\ r.exit = "complete" /\ ~r.dry_run
    /\ r.batches = <<2, 1>> /\ r.processed = 3
    /\ r.approved_count = 2 /\ r.filtered_count = 1
    /\ r.calls.create = 3 /\ r.calls.update_classification = 3

(* C21: approve-all completes every row that is pending when it is called   *)
(* as approved (result 1) with the reason "auto-approved" and classified_at *)
(* set, changing nothing else of the row; it leaves every completed row as  *)
(* it was and adds or removes none; it returns the number of rows that were *)
(* pending; no row is pending afterwards; and a second call right after     *)
(* changes nothing and returns 0.                                           *)
C21_ApproveAll ==
    [][ret'.op = "approve_all" =>
          /\ DOMAIN tweets' = DOMAIN tweets
          /\ \A i \in DOMAIN tweets :
                IF Pending(tweets[i])
                THEN /\ tweets'[i] = [tweets[i] EXCEPT
                                         !.classification_status = "completed",
                                         !.classification_result = 1,
                                         !.classification_reason = Reason("auto-approved"),
                                         !.classified_at = now]
                     /\ tweets'[i].classified_at # NULL
                ELSE tweets'[i] = tweets[i]
          /\ ret'.count = Cardinality({i \in DOMAIN tweets : Pending(tweets[i])})
          /\ {i \in DOMAIN tweets' : Pending(tweets'[i])} = {}
          /\ approve_all_pending(tweets', now).tweets = tweets'
          /\ approve_all_pending(tweets', now).rowcount = 0]_vars

(* Approve-all has just changed one row, beside a row that a commit had     *)
(* completed as filtered                                                    *)
C21_Witness ==
    /\ ret.op = "approve_all" /\ ret.count = 1
    /\ \E i \in DOMAIN tweets : tweets[i].classification_reason = Reason("auto-approved")
    /\ \E i \in DOMAIN tweets :
          /\ tweets[i].classification_result = 0
          /\ tweets[i].classification_reason = Reason("No reason provided")

(* The ids of the tweets the run has sent to the model *)
Classified(r) == {r.log[k].tweet_id : k \in 1..Len(r.log)}

(* C22: in a run on a store no one else writes, dry run or not, no tweet is *)
(* sent to the model twice, and a run that is done reports as `processed`   *)
(* the number of distinct tweets it has classified.                         *)
C22_NoRepeatedModelCall ==
    LET r == run["r1"] IN
    /\ \A j, k \in 1..Len(r.log) : j # k => r.log[j].tweet_id # r.log[k].tweet_id
    /\ r.pc = "done" => r.processed = Cardinality(Classified(r))

(* The same for the runs that save their results *)
C22_NoRepeatOfSavingRuns ==
    ~run["r1"].dry_run => C22_NoRepeatedModelCall

(* C23: a run with --batch-size >= 1 whose model calls all return or fail   *)
(* reaches done, whatever the server stores or approves meanwhile.          *)
C23_Termination ==
    (run["r1"].pc # "idle" /\ run["r1"].batch_size >= 1) ~> (run["r1"].pc = "done")

(* Such a run comes to an end: it returns, or an exception leaves it *)
C23_RunEnds ==
    (run["r1"].pc # "idle" /\ run["r1"].batch_size >= 1) ~> (run["r1"].pc \in {"done", "failed"})

(* Each turn of the loop breaks on an empty fetch or adds at least one to   *)
(* processed, and the limit stays as it was fixed at the start              *)
C23_LoopProgress ==
    [][LET r == run["r1"]
           q == run'["r1"]
       IN  /\ r.pc # "idle" => q.limit = r.limit
           /\ q.processed >= r.processed
           /\ (r.pc = "fetching" /\ q # r) =>
                  \/ q.pc = "done"
                  \/ q.pc = "classifying" /\ Len(q.tweets) >= 1
           /\ (r.pc = "committing" /\ q.pc = "fetching") =>
                  q.processed = r.processed + Len(r.tweets) /\ Len(r.tweets) >= 1]_vars

====
